---- MODULE Spec2Model ----
(***************************************************************************)
(* The Runner console reporter (src/unnamed/part_000): the session map,    *)
(* the sticky fatal-error flag, the de-duplication table of deprecation    *)
(* notices, and what each event handler writes to the terminal (charm).    *)
(*                                                                         *)
(* A JavaScript string is a TLA+ string; a text that is written to the     *)
(* terminal is the sequence of the pieces it was concatenated or formatted *)
(* from, so that "the line includes <piece>" can be stated.  The value     *)
(* undefined is the string Undefined, which is no identifier, name or      *)
(* message of the model.  The two pictographs the reporter writes (the     *)
(* warning sign of a deprecation notice, the flipped table of a run error) *)
(* are written here as "! " and "(table flip)", the marks of testEnd as    *)
(* "x ", "~ " and "v ".                                                    *)
(***************************************************************************)
EXTENDS Integers, Sequences, FiniteSets, TLC

VARIABLES
    sessions,              \* this.sessions: session key -> [suite, coverage]
    hasErrors,             \* this.hasErrors
    serveOnly,             \* this.serveOnly (executor.config.serveOnly)
    hidePassed,            \* this.hidePassed
    hideSkipped,           \* this.hideSkipped
    deprecationMessages,   \* keys of this._deprecationMessages
    event,                 \* the event the last handler was called with
    out,                   \* the charm calls the last handler made, in order
    threw,                 \* the last handler ended by throwing a TypeError
    totals,                \* runEnd's locals when it returned
    received,              \* history: the deprecation triples received so far
    rendered,              \* history: the number of deprecation notices written
    arrived,               \* history: per session key, the number of coverage
                           \* events since the key's last start and the hits
                           \* per file they brought
    nEvents                \* the number of events dispatched so far

vars == <<sessions, hasErrors, serveOnly, hidePassed, hideSkipped,
          deprecationMessages, event, out, threw, totals, received, rendered,
          arrived, nEvents>>

-----------------------------------------------------------------------------
(* Bounds *)

MaxEvents == 4

MaxCount == 1

MaxSuiteEvents == 3

MaxCoverageEvents == 7

MaxTotalEvents == 5

-----------------------------------------------------------------------------
(* JavaScript values *)

Undefined == "<undefined>"

JsTrue == "true"

JsFalse == "false"

\* ToBoolean on the values of the model: undefined, '' and false are falsy
Truthy(v) == v \notin {Undefined, "", JsFalse}

\* a || b
Or(a, b) == IF Truthy(a) THEN a ELSE b

\* string conversion, as string concatenation and template literals do it
Str(v) == IF v = Undefined THEN "undefined" ELSE v

\* ToBoolean of a number
TruthyNum(n) == n # 0

\* value > 0 for a value hasError returns: true is 1, false is 0, an Error
\* object converts to NaN and compares false
GreaterThanZero(v) == v = JsTrue

-----------------------------------------------------------------------------
(* The values the events carry *)

SessionIds == {"s1", "s2"}

\* an Error object, and what formatError makes of it
ErrorObj == "Error: boom"

formatError(error) == <<Str(error)>>

\* a Test: it has no tests property
Test(e, skip) == [id |-> "main - test", error |-> e, skipped |-> skip,
                  timeElapsed |-> 2000]

Tests == {Test(e, skip) : e \in {Undefined, ErrorObj}, skip \in {Undefined, "todo"}}

T0 == Test(Undefined, Undefined)

Te == Test(ErrorObj, Undefined)

\* a nested Suite, as an element of its parent's tests
Sub(e, kids) == [id |-> "main - sub", error |-> e, tests |-> kids]

Trees ==
    { <<T0>>,
      <<Te>>,
      <<Sub(Undefined, <<Te>>)>>,
      <<Sub(ErrorObj, <<>>)>>,
      <<T0, Sub(Undefined, <<Sub(ErrorObj, <<T0>>)>>)>> }

\* the counters of a suite: the handlers add them up, print them and test
\* them against 0, so each is 0 or MaxCount; failed and skipped tests are
\* among the tests
Counts ==
    { c \in [numTests : {0, MaxCount}, numFailedTests : {0, MaxCount},
             numSkippedTests : {0, MaxCount}] :
        c.numFailedTests + c.numSkippedTests <= c.numTests }

MkSuite(sid, hp, err, c, tr) ==
    [sessionId |-> sid, hasParent |-> hp, name |-> "main", id |-> "main",
     error |-> err, numTests |-> c.numTests,
     numFailedTests |-> c.numFailedTests,
     numSkippedTests |-> c.numSkippedTests, tests |-> tr]

Suites ==
    { MkSuite(sid, hp, err, c, tr) :
        sid \in SessionIds \cup {Undefined}, hp \in BOOLEAN,
        err \in {Undefined, ErrorObj}, c \in Counts, tr \in Trees }

\* a suite that is starting has not run: neither it nor a test of it carries
\* an error yet
StartSuites == { s \in Suites : s.error = Undefined /\ s.tests = <<T0>> }

\* the suites whose end is reported while other sessions are running: every
\* field varies but the tree of results
EndSuites == { s \in Suites : s.tests = <<T0>> }

\* istanbul coverage: file -> hits
Files == <<"a.js", "b.js">>

createCoverageMap == <<>>

CoverageData == { [f \in {Files[i]} |-> 1] : i \in DOMAIN Files }

CoverageMessages ==
    [sessionId : SessionIds \cup {Undefined, ""}, coverage : CoverageData]

\* coverage data of more shapes: of no file, of more hits, of both files
WideCoverageData ==
    CoverageData
    \cup { <<>>, [f \in {Files[1]} |-> 2],
           [f \in {Files[1], Files[2]} |-> IF f = Files[1] THEN 1 ELSE 2] }

WideCoverageMessages ==
    [sessionId : SessionIds \cup {Undefined}, coverage : WideCoverageData]

DeprecationMessages ==
    { [original |-> "a|b", replacement |-> "c", message |-> Undefined],
      [original |-> "a", replacement |-> "b|c", message |-> Undefined],
      [original |-> "a", replacement |-> Undefined, message |-> "gone"] }

-----------------------------------------------------------------------------
(* Coverage maps *)

Hits(map, f) == IF f \in DOMAIN map THEN map[f] ELSE 0

\* a slip: the hits of the other map replace the hits of this one
MergeOverwrites(a, b) ==
    [f \in DOMAIN a \cup DOMAIN b |-> IF f \in DOMAIN b THEN b[f] ELSE a[f]]

\* CoverageMap.merge
Merge(a, b) == [f \in DOMAIN a \cup DOMAIN b |-> Hits(a, f) + Hits(b, f)]

\* CoverageMap.files()
files(map) == DOMAIN map

RECURSIVE CovTokens(_, _)
CovTokens(map, i) ==
    IF i > Len(Files) THEN <<>>
    ELSE (IF Files[i] \in DOMAIN map
          THEN <<Files[i], ToString(map[Files[i]])>> ELSE <<>>)
         \o CovTokens(map, i + 1)

-----------------------------------------------------------------------------
(* charm *)

write(text) == <<"write", text>>

foreground(colour) == <<"foreground", <<colour>>>>

display(attr) == <<"display", <<attr>>>>

createCoverageReport(map) == <<"createCoverageReport", CovTokens(map, 1)>>

-----------------------------------------------------------------------------
(* Construction *)

\* the configurations the reporter is constructed with: no handler reads two
\* of the three switches, so switching them together takes every branch
Configs ==
    { [serveOnly |-> b, hidePassed |-> b, hideSkipped |-> b] : b \in BOOLEAN }

NoTotals ==
    [numEnvironments |-> 0, numTests |-> 0, numFailedTests |-> 0,
     numSkippedTests |-> 0]

Init ==
    /\ sessions = <<>>
    /\ hasErrors = FALSE
    /\ \E config \in Configs :
          /\ serveOnly = config.serveOnly
          /\ hidePassed = config.hidePassed
          /\ hideSkipped = config.hideSkipped
    /\ deprecationMessages = {}
    /\ event = [name |-> "constructor"]
    /\ out = <<display("reset")>>
    /\ threw = FALSE
    /\ totals = NoTotals
    /\ received = {}
    /\ rendered = 0
    /\ arrived = <<>>
    /\ nEvents = 0

\* what every handler leaves behind: the event it was called with, what it
\* wrote, and whether it threw
Handled(ev, calls, thrown) ==
    /\ event' = ev
    /\ out' = calls
    /\ threw' = thrown
    /\ nEvents' = nEvents + 1
    /\ UNCHANGED <<serveOnly, hidePassed, hideSkipped>>

-----------------------------------------------------------------------------
(* coverage *)

\* history: no coverage event yet
NoArrival == [events |-> 0, hits |-> <<>>]

\* history: one more coverage event, which brought the hits of data
Arrival(bag, data) ==
    [events |-> bag.events + 1,
     hits |-> [f \in DOMAIN bag.hits \cup DOMAIN data |->
                  (IF f \in DOMAIN bag.hits THEN bag.hits[f] ELSE 0)
                  + (IF f \in DOMAIN data THEN data[f] ELSE 0)]]

\* a slip: the data is merged into the coverage of every session
CoverageIntoAll(message) ==
    LET key == Or(message.sessionId, "")
    IN  /\ IF key \notin DOMAIN sessions
           THEN /\ Handled([name |-> "coverage", message |-> message], <<>>,
                           TRUE)
                /\ UNCHANGED <<sessions, arrived>>
           ELSE /\ sessions' =
                      [id \in DOMAIN sessions |->
                          [sessions[id] EXCEPT !.coverage =
                              <<Merge(IF @ # <<>> THEN @[1]
                                      ELSE createCoverageMap,
                                      message.coverage)>>]]
                /\ arrived' = [arrived EXCEPT ![key] =
                                   Arrival(@, message.coverage)]
                /\ Handled([name |-> "coverage", message |-> message],
                           <<>>, FALSE)
        /\ totals' = NoTotals
        /\ UNCHANGED <<hasErrors, deprecationMessages, received, rendered>>

Coverage(message) ==
    LET key == Or(message.sessionId, "")
    IN  /\ IF key \notin DOMAIN sessions
           THEN \* session is undefined: reading session.coverage throws
                /\ Handled([name |-> "coverage", message |-> message], <<>>, TRUE)
                /\ UNCHANGED <<sessions, arrived>>
           ELSE LET session == sessions[key]
                    map == IF session.coverage # <<>> THEN session.coverage[1]
                           ELSE createCoverageMap
                IN  /\ sessions' = [sessions EXCEPT ![key].coverage =
                                        <<Merge(map, message.coverage)>>]
                    /\ arrived' = [arrived EXCEPT ![key] =
                                       Arrival(@, message.coverage)]
                    /\ Handled([name |-> "coverage", message |-> message],
                               <<>>, FALSE)
        /\ totals' = NoTotals
        /\ UNCHANGED <<hasErrors, deprecationMessages, received, rendered>>

-----------------------------------------------------------------------------
(* deprecated *)

DeprecationKey(message) ==
    Str(message.original) \o "|" \o Str(message.replacement) \o "|"
        \o Str(message.message)

Triple(message) == <<message.original, message.replacement, message.message>>

DeprecationNotice(message) ==
    <<foreground("yellow"),
      write(<<"! ", Str(message.original), " is deprecated. ">>)>>
    \o (IF Truthy(message.replacement)
        THEN <<write(<<"Use ", Str(message.replacement), " instead.">>)>>
        ELSE <<write(<<"Please open a ticket">>)>>)
    \o (IF Truthy(message.message)
        THEN <<write(<<" ", Str(message.message)>>)>> ELSE <<>>)
    \o <<write(<<"\n">>), display("reset")>>

Deprecated(message) ==
    LET key == DeprecationKey(message)
    IN  /\ IF key \in deprecationMessages
           THEN /\ Handled([name |-> "deprecated", message |-> message],
                           <<>>, FALSE)
                /\ UNCHANGED <<deprecationMessages, rendered>>
           ELSE /\ deprecationMessages' = deprecationMessages \cup {key}
                /\ rendered' = rendered + 1
                /\ Handled([name |-> "deprecated", message |-> message],
                           DeprecationNotice(message), FALSE)
        /\ received' = received \cup {Triple(message)}
        /\ totals' = NoTotals
        /\ UNCHANGED <<sessions, hasErrors, arrived>>

-----------------------------------------------------------------------------
(* error *)

Error(error) ==
    /\ hasErrors' = TRUE
    /\ Handled([name |-> "error", error |-> error],
               <<foreground("red"), write(<<"(table flip)\n">>),
                 write(formatError(error)), display("reset"),
                 write(<<"\n\n">>)>>, FALSE)
    /\ totals' = NoTotals
    /\ UNCHANGED <<sessions, deprecationMessages, received, rendered, arrived>>

-----------------------------------------------------------------------------
(* runEnd *)

\* sessionIds.forEach(...): the coverage map and the three counters after
\* the sessions in ids have been visited, starting from acc
RECURSIVE ForEachSession(_, _)
ForEachSession(ids, acc) ==
    IF ids = {} THEN acc
    ELSE LET sessionId == CHOOSE id \in ids : TRUE
             session == sessions[sessionId]
         IN  ForEachSession(ids \ {sessionId},
                 [map |-> IF session.coverage # <<>>
                          THEN Merge(acc.map, session.coverage[1])
                          ELSE acc.map,
                  numTests |-> acc.numTests + session.suite.numTests,
                  numFailedTests |->
                      acc.numFailedTests + session.suite.numFailedTests,
                  numSkippedTests |->
                      acc.numSkippedTests + session.suite.numSkippedTests])

\* a slip in the guard: the loop is skipped for two sessions as well
RunEndLocalsSkipsPair ==
    LET sessionIds == DOMAIN sessions
        start == [map |-> createCoverageMap, numTests |-> 0,
                  numFailedTests |-> 0, numSkippedTests |-> 0]
        done == IF Cardinality(sessionIds) > 2
                THEN ForEachSession(sessionIds, start) ELSE start
    IN  [map |-> done.map, numEnvironments |-> Cardinality(sessionIds),
         numTests |-> done.numTests, numFailedTests |-> done.numFailedTests,
         numSkippedTests |-> done.numSkippedTests]

RunEndLocals ==
    LET sessionIds == DOMAIN sessions
        start == [map |-> createCoverageMap, numTests |-> 0,
                  numFailedTests |-> 0, numSkippedTests |-> 0]
        done == IF Cardinality(sessionIds) > 1
                THEN ForEachSession(sessionIds, start) ELSE start
    IN  [map |-> done.map, numEnvironments |-> Cardinality(sessionIds),
         numTests |-> done.numTests, numFailedTests |-> done.numFailedTests,
         numSkippedTests |-> done.numSkippedTests]

\* a slip: the arguments of the format are in another order
TotalMessageSwapped(l) ==
    <<"TOTAL: tested ", ToString(l.numEnvironments), " platforms, ",
      ToString(l.numTests), "/", ToString(l.numFailedTests), " tests failed">>
    \o (IF TruthyNum(l.numSkippedTests)
        THEN <<" (", ToString(l.numSkippedTests), " skipped)">> ELSE <<>>)
    \o (IF hasErrors /\ ~TruthyNum(l.numFailedTests)
        THEN <<"; fatal error occurred">> ELSE <<>>)

\* nodeUtil.format(message, numEnvironments, numFailedTests, numTests)
TotalMessage(l) ==
    <<"TOTAL: tested ", ToString(l.numEnvironments), " platforms, ",
      ToString(l.numFailedTests), "/", ToString(l.numTests), " tests failed">>
    \o (IF TruthyNum(l.numSkippedTests)
        THEN <<" (", ToString(l.numSkippedTests), " skipped)">> ELSE <<>>)
    \o (IF hasErrors /\ ~TruthyNum(l.numFailedTests)
        THEN <<"; fatal error occurred">> ELSE <<>>)

TotalCoverageOutput(l) ==
    IF Cardinality(files(l.map)) > 0
    THEN <<write(<<"\n">>), display("bright"), write(<<"Total coverage\n">>),
           display("reset"), createCoverageReport(l.map)>>
    ELSE <<>>

TotalLineOutput(l) ==
    <<display("bright"),
      foreground(IF l.numFailedTests > 0 \/ hasErrors THEN "red" ELSE "green"),
      write(TotalMessage(l)), display("reset"), write(<<"\n">>)>>

\* a slip in the guard: the summary is written for a single session as well
RunEndOutputForOne(l) ==
    IF l.numEnvironments > 0
    THEN TotalCoverageOutput(l) \o TotalLineOutput(l)
    ELSE <<>>

RunEndOutput(l) ==
    IF l.numEnvironments > 1
    THEN TotalCoverageOutput(l) \o TotalLineOutput(l)
    ELSE <<>>

\* a slip: the coverage that was added to the total is taken from the sessions
RunEndConsumes ==
    LET l == RunEndLocals
    IN  /\ totals' = [numEnvironments |-> l.numEnvironments,
                      numTests |-> l.numTests,
                      numFailedTests |-> l.numFailedTests,
                      numSkippedTests |-> l.numSkippedTests]
        /\ sessions' = [id \in DOMAIN sessions |->
                            [sessions[id] EXCEPT !.coverage = <<>>]]
        /\ Handled([name |-> "runEnd"], RunEndOutput(l), FALSE)
        /\ UNCHANGED <<hasErrors, deprecationMessages, received, rendered,
                       arrived>>

RunEnd ==
    LET l == RunEndLocals
    IN  /\ totals' = [numEnvironments |-> l.numEnvironments,
                      numTests |-> l.numTests,
                      numFailedTests |-> l.numFailedTests,
                      numSkippedTests |-> l.numSkippedTests]
        /\ Handled([name |-> "runEnd"], RunEndOutput(l), FALSE)
        /\ UNCHANGED <<sessions, hasErrors, deprecationMessages, received,
                       rendered, arrived>>

-----------------------------------------------------------------------------
(* suiteEnd *)

\* the named function expression hasError of suiteEnd: the value it returns
\* for a suite or a test
\* a slip: only the suite's own tests are looked at, not their descendants
hasErrorShallow(suite) ==
    IF "tests" \in DOMAIN suite
    THEN Or(suite.error,
            IF \E i \in DOMAIN suite.tests :
                   /\ "tests" \in DOMAIN suite.tests[i]
                   /\ Truthy(suite.tests[i].error)
            THEN JsTrue ELSE JsFalse)
    ELSE JsFalse

RECURSIVE hasError(_)
hasError(suite) ==
    IF "tests" \in DOMAIN suite
    THEN Or(suite.error,
            IF \E i \in DOMAIN suite.tests : Truthy(hasError(suite.tests[i]))
            THEN JsTrue ELSE JsFalse)
    ELSE JsFalse

\* a slip: the skipped count is always appended
SummaryAlwaysSkipped(suite) ==
    <<suite.name, ": ", ToString(suite.numFailedTests), "/",
      ToString(suite.numTests), " tests failed">>
    \o <<" (", ToString(suite.numSkippedTests), " skipped)">>
    \o (IF Truthy(hasError(suite))
        THEN <<"; fatal error occurred">> ELSE <<>>)

Summary(suite) ==
    <<suite.name, ": ", ToString(suite.numFailedTests), "/",
      ToString(suite.numTests), " tests failed">>
    \o (IF TruthyNum(suite.numSkippedTests)
        THEN <<" (", ToString(suite.numSkippedTests), " skipped)">> ELSE <<>>)
    \o (IF Truthy(hasError(suite))
        THEN <<"; fatal error occurred">> ELSE <<>>)

SuiteFailedOutput(suite) ==
    <<foreground("red"), write(<<"Suite ", suite.id, " FAILED\n">>),
      write(formatError(suite.error)), display("reset"), write(<<"\n">>)>>

\* a slip: the diagnostic is written in serve-only mode as well
InvalidSessionOutputAlways(suite) ==
    <<display("bright"), foreground("yellow"),
      write(<<"BUG: suiteEnd was received for invalid session ",
              Str(suite.sessionId)>>),
      display("reset"), write(<<"\n">>)>>

InvalidSessionOutput(suite) ==
    IF ~serveOnly
    THEN <<display("bright"), foreground("yellow"),
           write(<<"BUG: suiteEnd was received for invalid session ",
                   Str(suite.sessionId)>>),
           display("reset"), write(<<"\n">>)>>
    ELSE <<>>

\* a slip: the report is written only for a coverage map that names a file
SessionOutputByFiles(suite, session) ==
    (IF session.coverage # <<>> /\ files(session.coverage[1]) # {}
     THEN <<write(<<"\n">>), createCoverageReport(session.coverage[1])>>
     ELSE <<write(<<"No unit test coverage for ", suite.name>>),
            display("reset"), write(<<"\n">>)>>)
    \o <<display("bright"),
         foreground(IF TruthyNum(suite.numFailedTests)
                       \/ GreaterThanZero(hasError(suite))
                    THEN "red" ELSE "green"),
         write(Summary(suite)), display("reset"), write(<<"\n">>)>>

SessionOutput(suite, session) ==
    (IF session.coverage # <<>>
     THEN <<write(<<"\n">>), createCoverageReport(session.coverage[1])>>
     ELSE <<write(<<"No unit test coverage for ", suite.name>>),
            display("reset"), write(<<"\n">>)>>)
    \o <<display("bright"),
         foreground(IF TruthyNum(suite.numFailedTests)
                       \/ GreaterThanZero(hasError(suite))
                    THEN "red" ELSE "green"),
         write(Summary(suite)), display("reset"), write(<<"\n">>)>>

RootSuiteOutput(suite) ==
    LET key == Or(suite.sessionId, "")
    IN  IF key \notin DOMAIN sessions
        THEN InvalidSessionOutput(suite)
        ELSE SessionOutput(suite, sessions[key])

\* a slip: the session of a root suite is looked up before its error
SuiteEndOutputSessionFirst(suite) ==
    IF ~suite.hasParent /\ Or(suite.sessionId, "") \notin DOMAIN sessions
    THEN InvalidSessionOutput(suite)
    ELSE IF Truthy(suite.error) THEN SuiteFailedOutput(suite)
    ELSE IF ~suite.hasParent THEN RootSuiteOutput(suite)
    ELSE <<>>

\* a slip: the test for a parent is left out
SuiteEndOutputAnySuite(suite) ==
    IF Truthy(suite.error) THEN SuiteFailedOutput(suite)
    ELSE RootSuiteOutput(suite)

SuiteEndOutput(suite) ==
    IF Truthy(suite.error) THEN SuiteFailedOutput(suite)
    ELSE IF ~suite.hasParent THEN RootSuiteOutput(suite)
    ELSE <<>>

\* a slip: the flag is assigned from this suite alone
SuiteEndForgets(suite) ==
    /\ hasErrors' = Truthy(suite.error)
    /\ Handled([name |-> "suiteEnd", suite |-> suite], SuiteEndOutput(suite),
               FALSE)
    /\ totals' = NoTotals
    /\ UNCHANGED <<sessions, deprecationMessages, received, rendered, arrived>>

SuiteEnd(suite) ==
    /\ hasErrors' = IF Truthy(suite.error) THEN TRUE ELSE hasErrors
    /\ Handled([name |-> "suiteEnd", suite |-> suite], SuiteEndOutput(suite),
               FALSE)
    /\ totals' = NoTotals
    /\ UNCHANGED <<sessions, deprecationMessages, received, rendered, arrived>>

-----------------------------------------------------------------------------
(* suiteStart *)

\* a slip: a session that is registered again keeps the coverage it had
SuiteStartKeepsCoverage(suite) ==
    /\ IF ~suite.hasParent
       THEN LET key == Or(suite.sessionId, "")
                session == [suite |-> suite,
                            coverage |-> IF key \in DOMAIN sessions
                                         THEN sessions[key].coverage ELSE <<>>]
            IN  /\ sessions' = [id \in DOMAIN sessions \cup {key} |->
                                    IF id = key THEN session ELSE sessions[id]]
                /\ arrived' = [id \in DOMAIN arrived \cup {key} |->
                                   IF id = key THEN NoArrival ELSE arrived[id]]
                /\ Handled([name |-> "suiteStart", suite |-> suite], <<>>,
                           FALSE)
       ELSE /\ UNCHANGED <<sessions, arrived>>
            /\ Handled([name |-> "suiteStart", suite |-> suite], <<>>, FALSE)
    /\ totals' = NoTotals
    /\ UNCHANGED <<hasErrors, deprecationMessages, received, rendered>>

SuiteStart(suite) ==
    /\ IF ~suite.hasParent
       THEN LET key == Or(suite.sessionId, "")
                session == [suite |-> suite, coverage |-> <<>>]
            IN  /\ sessions' = [id \in DOMAIN sessions \cup {key} |->
                                    IF id = key THEN session ELSE sessions[id]]
                /\ arrived' = [id \in DOMAIN arrived \cup {key} |->
                                   IF id = key THEN NoArrival ELSE arrived[id]]
                /\ Handled([name |-> "suiteStart", suite |-> suite],
                           IF Truthy(suite.sessionId)
                           THEN <<write(<<"\n">>),
                                  write(<<"> Created remote session ",
                                          suite.name, " (",
                                          Str(suite.sessionId), ")\n">>)>>
                           ELSE <<>>, FALSE)
       ELSE /\ UNCHANGED <<sessions, arrived>>
            /\ Handled([name |-> "suiteStart", suite |-> suite], <<>>, FALSE)
    /\ totals' = NoTotals
    /\ UNCHANGED <<hasErrors, deprecationMessages, received, rendered>>

-----------------------------------------------------------------------------
(* testEnd *)

\* (test.timeElapsed / 1000) + 's', for whole seconds
Seconds(ms) == ToString(ms \div 1000)

TestEndOutput(test) ==
    IF Truthy(test.error)
    THEN <<foreground("red"), write(<<"x ", test.id>>),
           write(<<" (", Seconds(test.timeElapsed), "s)">>), write(<<"\n">>),
           display("reset"), foreground("red"),
           write(formatError(test.error)), display("reset"), write(<<"\n">>)>>
    ELSE IF Truthy(test.skipped)
    THEN (IF ~hideSkipped
          THEN <<foreground("magenta"), write(<<"~ ", test.id>>),
                 display("reset"),
                 write(<<" (", Or(test.skipped, "skipped"), ")">>),
                 display("reset"), write(<<"\n">>)>>
          ELSE <<>>)
    ELSE (IF ~hidePassed
          THEN <<foreground("green"), write(<<"v ", test.id>>),
                 display("reset"),
                 write(<<" (", Seconds(test.timeElapsed), "s)">>),
                 display("reset"), write(<<"\n">>)>>
          ELSE <<>>)

\* a slip: a test's error marks the run as well
TestEndSetsFlag(test) ==
    /\ hasErrors' = (hasErrors \/ Truthy(test.error))
    /\ Handled([name |-> "testEnd", test |-> test], TestEndOutput(test), FALSE)
    /\ totals' = NoTotals
    /\ UNCHANGED <<sessions, deprecationMessages, received, rendered, arrived>>

TestEnd(test) ==
    /\ Handled([name |-> "testEnd", test |-> test], TestEndOutput(test), FALSE)
    /\ totals' = NoTotals
    /\ UNCHANGED <<sessions, hasErrors, deprecationMessages, received,
                   rendered, arrived>>

-----------------------------------------------------------------------------
(* The event stream: the executor dispatches one event at a time *)

More == nEvents < MaxEvents

Next ==
    \/ \E suite \in StartSuites : More /\ SuiteStart(suite)
    \/ \E suite \in EndSuites : More /\ SuiteEnd(suite)
    \/ \E message \in CoverageMessages : More /\ Coverage(message)
    \/ \E message \in DeprecationMessages : More /\ Deprecated(message)
    \/ \E test \in Tests : More /\ TestEnd(test)
    \/ More /\ Error(ErrorObj)
    \/ More /\ RunEnd

Spec == Init /\ [][Next]_vars

\* the end of one suite, over every suite of Suites: a session is started,
\* or not, its coverage arrives, or not, and the suite ends
MoreOfSuite == nEvents < MaxSuiteEvents

NextSuiteEnd ==
    \/ \E suite \in StartSuites : MoreOfSuite /\ SuiteStart(suite)
    \/ \E message \in CoverageMessages : MoreOfSuite /\ Coverage(message)
    \/ \E suite \in Suites : MoreOfSuite /\ SuiteEnd(suite)

SpecSuiteEnd == Init /\ [][NextSuiteEnd]_vars

\* the coverage of a run: sessions are started, their coverage arrives in any
\* order, their suites end and the run ends; the suites are root suites
\* without tests
CoverageSuites == { s \in StartSuites : ~s.hasParent /\ s.numTests = 0 }

MoreOfCoverage == nEvents < MaxCoverageEvents

NextCoverage ==
    \/ \E suite \in CoverageSuites : MoreOfCoverage /\ SuiteStart(suite)
    \/ \E message \in WideCoverageMessages :
          MoreOfCoverage /\ Coverage(message)
    \/ \E suite \in CoverageSuites : MoreOfCoverage /\ SuiteEnd(suite)
    \/ MoreOfCoverage /\ RunEnd

SpecCoverage == Init /\ [][NextCoverage]_vars

\* the totals of a run of two kinds of sessions: one of 10 tests, 2 of them
\* failed and 1 skipped, one of 5 tests that passed; a root suite on the
\* host has no sessionId or the sessionId ''
ExampleA(sid) ==
    MkSuite(sid, FALSE, Undefined,
            [numTests |-> 10, numFailedTests |-> 2, numSkippedTests |-> 1],
            <<T0>>)

ExampleB(sid) ==
    MkSuite(sid, FALSE, Undefined,
            [numTests |-> 5, numFailedTests |-> 0, numSkippedTests |-> 0],
            <<T0>>)

ExampleSuites ==
    { ExampleA(sid) : sid \in SessionIds \cup {Undefined, ""} }
    \cup { ExampleB(sid) : sid \in SessionIds \cup {Undefined, ""} }

MoreOfTotals == nEvents < MaxTotalEvents

NextTotals ==
    \/ \E suite \in ExampleSuites : MoreOfTotals /\ SuiteStart(suite)
    \/ MoreOfTotals /\ Error(ErrorObj)
    \/ MoreOfTotals /\ RunEnd

SpecTotals == Init /\ [][NextTotals]_vars

-----------------------------------------------------------------------------
(* What the properties below read off a state *)

Registered == DOMAIN sessions

\* some text written by calls holds piece
Includes(calls, piece) ==
    \E i \in DOMAIN calls :
        /\ calls[i][1] = "write"
        /\ \E j \in DOMAIN calls[i][2] : calls[i][2][j] = piece

\* some text written by calls starts with piece
Written(calls, piece) ==
    \E i \in DOMAIN calls :
        /\ calls[i][1] = "write"
        /\ calls[i][2] # <<>>
        /\ calls[i][2][1] = piece

HasTotalLine(calls) == Written(calls, "TOTAL: tested ")

HasTotalCoverage(calls) ==
    \/ Written(calls, "Total coverage\n")
    \/ \E i \in DOMAIN calls : calls[i][1] = "createCoverageReport"

HasSummary(calls) == Includes(calls, " tests failed")

IsRed(calls) == \E i \in DOMAIN calls : calls[i] = foreground("red")

\* the counts n of the suffixes " (n skipped)" that calls wrote
SkippedSuffixes(calls) ==
    { calls[x[1]][2][x[2] + 1] :
        x \in { y \in (DOMAIN calls) \X (1..12) :
                  /\ calls[y[1]][1] = "write"
                  /\ y[2] + 2 <= Len(calls[y[1]][2])
                  /\ calls[y[1]][2][y[2]] = " ("
                  /\ calls[y[1]][2][y[2] + 2] = " skipped)" } }

\* the sum of a counter over the root suites of the registered sessions
RECURSIVE SumOver(_, _)
SumOver(ids, field) ==
    IF ids = {} THEN 0
    ELSE LET id == CHOOSE x \in ids : TRUE
         IN  sessions[id].suite[field] + SumOver(ids \ {id}, field)

\* runEnd computed the three sums
ComputesSums ==
    /\ totals.numTests = SumOver(Registered, "numTests")
    /\ totals.numFailedTests = SumOver(Registered, "numFailedTests")
    /\ totals.numSkippedTests = SumOver(Registered, "numSkippedTests")

\* runEnd computed the three sums and wrote them in its TOTAL line
ReportsSums ==
    /\ ComputesSums
    /\ \E i \in DOMAIN out :
        /\ out[i][1] = "write"
        /\ Len(out[i][2]) >= 7
        /\ out[i][2][1] = "TOTAL: tested "
        /\ out[i][2][4] = ToString(SumOver(Registered, "numFailedTests"))
        /\ out[i][2][6] = ToString(SumOver(Registered, "numTests"))
    /\ SumOver(Registered, "numSkippedTests") > 0 =>
        SkippedSuffixes(out) = {ToString(SumOver(Registered, "numSkippedTests"))}

\* a test that carries an error, at any depth below node
RECURSIVE TestErrorIn(_)
TestErrorIn(node) ==
    IF "tests" \in DOMAIN node
    THEN \E i \in DOMAIN node.tests : TestErrorIn(node.tests[i])
    ELSE Truthy(node.error)

\* a suite that carries an error, at node or at any depth below it
RECURSIVE SuiteErrorIn(_)
SuiteErrorIn(node) ==
    /\ "tests" \in DOMAIN node
    /\ \/ Truthy(node.error)
       \/ \E i \in DOMAIN node.tests : SuiteErrorIn(node.tests[i])

\* the last event was the end of a root suite whose session is registered
EndOfRegisteredRoot ==
    /\ event.name = "suiteEnd"
    /\ ~event.suite.hasParent
    /\ Or(event.suite.sessionId, "") \in Registered

-----------------------------------------------------------------------------
(* C1 *)

\* C1, as claimed: after runEnd with N >= 1 registered sessions, the totals
\* runEnd computed are the sums of numTests, numFailedTests and
\* numSkippedTests over the root suites of the registered sessions (that it
\* also wrote them is left out here: with one session it writes nothing).
C1_TotalsForAnyN ==
    (event.name = "runEnd" /\ Cardinality(Registered) >= 1) => ComputesSums

\* C1, amended: the same for N >= 2 registered sessions; with one session
\* runEnd neither runs the loop nor writes a line.
C1_TotalsForSeveral ==
    (event.name = "runEnd" /\ Cardinality(Registered) >= 2) => ReportsSums

C1_Witness ==
    /\ event.name = "runEnd"
    /\ Cardinality(Registered) = 3
    /\ totals.numTests = 3
    /\ totals.numFailedTests >= 1
    /\ totals.numSkippedTests >= 1
    /\ ReportsSums

-----------------------------------------------------------------------------
(* C2 *)

\* C2: a coverage event whose session identifier has no registered session
\* never throws.
C2_CoverageNeverThrows ==
    (/\ event.name = "coverage"
     /\ Or(event.message.sessionId, "") \notin Registered) => ~threw

-----------------------------------------------------------------------------
(* C3 *)

SummaryIsFatal == Includes(out, "; fatal error occurred") /\ IsRed(out)

-----------------------------------------------------------------------------
(* C4 *)

\* C4: when runEnd is reached with the fatal-error flag set and no failed
\* test, for any number N >= 1 of registered sessions, runEnd's output marks
\* the run as failed (the failure colour).
C4_FatalRunReportsFailed ==
    (/\ event.name = "runEnd"
     /\ hasErrors
     /\ Cardinality(Registered) >= 1
     /\ SumOver(Registered, "numFailedTests") = 0) => IsRed(out)

-----------------------------------------------------------------------------
(* C5 *)

\* C5: hasErrors starts false, and no event of any kind resets it once it
\* is true.
C5_FlagIsSticky ==
    [][(nEvents = 0 => ~hasErrors) /\ (hasErrors => hasErrors')]_vars

C5_Witness ==
    /\ hasErrors
    /\ nEvents >= 2
    /\ event.name = "suiteEnd"
    /\ ~Truthy(event.suite.error)

-----------------------------------------------------------------------------
(* C6 *)

\* C6: runEnd writes the TOTAL line and the combined coverage report only
\* when more than one session is registered; with one session or none it
\* writes neither.
C6_TotalOnlyForSeveral ==
    (event.name = "runEnd" /\ Cardinality(Registered) <= 1) =>
        (~HasTotalLine(out) /\ ~HasTotalCoverage(out))

C6_Witness ==
    /\ event.name = "runEnd"
    /\ Cardinality(Registered) = 1
    /\ \E id \in Registered : sessions[id].coverage # <<>>
    /\ out = <<>>

-----------------------------------------------------------------------------
(* C7 *)

\* C7, as claimed: suiteEnd for a suite that has a parent, whatever its
\* fields, writes nothing and leaves the session map and hasErrors as they
\* were.
C7_NestedSuiteEndIsSilent ==
    [][(event'.name = "suiteEnd" /\ event'.suite.hasParent) =>
          (out' = <<>> /\ sessions' = sessions /\ hasErrors' = hasErrors)]_vars

\* C7, amended: the same for a suite that has a parent and carries no error;
\* a suite with a parent that carries an error is reported as FAILED and
\* sets hasErrors.
C7_CleanNestedSuiteEndIsSilent ==
    [][(/\ event'.name = "suiteEnd"
        /\ event'.suite.hasParent
        /\ ~Truthy(event'.suite.error)) =>
          (out' = <<>> /\ sessions' = sessions /\ hasErrors' = hasErrors)]_vars

C7_Witness ==
    /\ event.name = "suiteEnd"
    /\ event.suite.hasParent
    /\ ~Truthy(event.suite.error)
    /\ Or(event.suite.sessionId, "") \in Registered
    /\ out = <<>>

-----------------------------------------------------------------------------
(* C8 *)

\* C8: the number of deprecation notices rendered equals the number of
\* distinct triples (original, replacement, message) received.
C8_OncePerTriple == rendered = Cardinality(received)

-----------------------------------------------------------------------------
(* C9 *)

-----------------------------------------------------------------------------
(* C10 *)

\* C10: the suffix " (<skipped> skipped)" is in the per-session line of
\* suiteEnd iff the suite's numSkippedTests > 0, and in the TOTAL line of
\* runEnd iff the sum of numSkippedTests over the sessions is > 0.
C10_SkippedSuffix ==
    /\ (event.name = "suiteEnd" /\ HasSummary(out)) =>
          SkippedSuffixes(out) =
              IF event.suite.numSkippedTests > 0
              THEN {ToString(event.suite.numSkippedTests)} ELSE {}
    /\ (event.name = "runEnd" /\ HasTotalLine(out)) =>
          SkippedSuffixes(out) =
              IF SumOver(Registered, "numSkippedTests") > 0
              THEN {ToString(SumOver(Registered, "numSkippedTests"))} ELSE {}

C10_Witness ==
    /\ event.name = "runEnd"
    /\ HasTotalLine(out)
    /\ SumOver(Registered, "numSkippedTests") = 2
    /\ SkippedSuffixes(out) = {"2"}

-----------------------------------------------------------------------------
(* C11 *)

\* C11: testEnd, also for a test that carries an error, leaves hasErrors and
\* the session map as they were; hasErrors changes only in suiteEnd (a suite
\* that carries an error) and in error (an error of the run).
C11_TestErrorIsNotFatal ==
    [][/\ event'.name = "testEnd" =>
            (hasErrors' = hasErrors /\ sessions' = sessions /\ ~threw')
       /\ hasErrors' # hasErrors =>
            \/ event'.name = "error"
            \/ event'.name = "suiteEnd" /\ Truthy(event'.suite.error)]_vars

C11_Witness ==
    /\ event.name = "testEnd"
    /\ Truthy(event.test.error)
    /\ Written(out, "x ")
    /\ ~hasErrors
    /\ Cardinality(Registered) = 2

-----------------------------------------------------------------------------
(* C12 *)

\* C12: the session map has one entry per session key and the last start
\* wins: after suiteStart for a suite without a parent, the entry under the
\* suite's key (its sessionId, '' when it has none) holds that suite and no
\* coverage, whatever was merged under the key before, the other entries are
\* as they were and no other key is added; suiteStart for a suite with a
\* parent leaves the map as it was.
C12_LastStartWins ==
    [][event'.name = "suiteStart" =>
          IF ~event'.suite.hasParent
          THEN LET key == Or(event'.suite.sessionId, "")
               IN  /\ DOMAIN sessions' = DOMAIN sessions \cup {key}
                   /\ sessions'[key].suite = event'.suite
                   /\ sessions'[key].coverage = <<>>
                   /\ \A id \in DOMAIN sessions \ {key} :
                          sessions'[id] = sessions[id]
          ELSE sessions' = sessions]_vars

C12_Witness ==
    /\ event.name = "suiteStart"
    /\ ~event.suite.hasParent
    /\ event.suite.sessionId = Undefined
    /\ Registered = {"", "s1"}
    /\ sessions[""].suite = event.suite
    /\ sessions[""].coverage = <<>>
    /\ sessions["s1"].coverage # <<>>
    /\ nEvents = MaxEvents

-----------------------------------------------------------------------------
(* C13 *)

\* C13: suiteEnd and runEnd leave the session map as it was: the same keys,
\* and under each key the same suite and the same coverage; a key is added
\* only by suiteStart for a suite without a parent, and the coverage under a
\* key changes only in a coverage event for the key (or when suiteStart
\* puts a new entry, without coverage, under the key).
C13_EndsOnlyRead ==
    [][/\ event'.name \in {"suiteEnd", "runEnd"} => sessions' = sessions
       /\ DOMAIN sessions' # DOMAIN sessions =>
            (event'.name = "suiteStart" /\ ~event'.suite.hasParent)
       /\ \A id \in DOMAIN sessions \cap DOMAIN sessions' :
            sessions'[id].coverage # sessions[id].coverage =>
                \/ /\ event'.name = "coverage"
                   /\ Or(event'.message.sessionId, "") = id
                \/ /\ event'.name = "suiteStart"
                   /\ ~event'.suite.hasParent
                   /\ Or(event'.suite.sessionId, "") = id]_vars

C13_Witness ==
    /\ event.name = "runEnd"
    /\ HasTotalCoverage(out)
    /\ Cardinality(Registered) = 2
    /\ \E id \in Registered :
          /\ sessions[id].coverage # <<>>
          /\ sessions[id].suite.sessionId = id

-----------------------------------------------------------------------------
(* C14 *)

\* the hits of file f that the coverage events brought to the sessions ids
RECURSIVE ArrivedHits(_, _)
ArrivedHits(ids, f) ==
    IF ids = {} THEN 0
    ELSE LET id == CHOOSE x \in ids : TRUE
         IN  (IF f \in DOMAIN arrived[id].hits THEN arrived[id].hits[f] ELSE 0)
             + ArrivedHits(ids \ {id}, f)

\* the aggregate as the bag of the coverage events determines it: the files
\* some event named, each with the sum of the hits the events brought
AggregateOfArrived ==
    [f \in { g \in {Files[i] : i \in DOMAIN Files} :
                \E id \in DOMAIN arrived : g \in DOMAIN arrived[id].hits } |->
        ArrivedHits(DOMAIN arrived, f)]

\* C14: the aggregate coverage that runEnd computes and reports for two or
\* more sessions is determined by the bag of coverage events the sessions
\* received since they were started, whatever the order of arrival: it has
\* the files the events named, each with the sum of the hits they brought;
\* so two interleavings of the same events give the same aggregate.
C14_AggregateIgnoresOrder ==
    (event.name = "runEnd" /\ Cardinality(Registered) >= 2) =>
        IF AggregateOfArrived = <<>>
        THEN ~HasTotalCoverage(out)
        ELSE \E i \in DOMAIN out :
                out[i] = createCoverageReport(AggregateOfArrived)

C14_Witness ==
    /\ event.name = "runEnd"
    /\ Registered = {"s1", "s2"}
    /\ arrived["s1"].events >= 2
    /\ arrived["s2"].events >= 2
    /\ \E i \in DOMAIN out :
          out[i] = <<"createCoverageReport", <<"a.js", "4", "b.js", "3">>>>

-----------------------------------------------------------------------------
(* C15 *)

\* the first call of calls that is a coverage report or writes the notice
\* "No unit test coverage for <name>", 0 if there is none
CoveragePart(calls) ==
    LET at == { i \in DOMAIN calls :
                  \/ calls[i][1] = "createCoverageReport"
                  \/ /\ calls[i][1] = "write"
                     /\ calls[i][2] # <<>>
                     /\ calls[i][2][1] = "No unit test coverage for " }
    IN  IF at = {} THEN 0 ELSE CHOOSE i \in at : \A j \in at : i <= j

\* C15: at suiteEnd for a registered root suite (without an error of its
\* own), the coverage report of the session is written iff at least one
\* coverage event for the session has arrived since its latest suiteStart,
\* and it is the report of what these events brought; otherwise the notice
\* "No unit test coverage for <name>" is written instead; the one-line
\* summary follows in both cases.
C15_ReportOrNotice ==
    (EndOfRegisteredRoot /\ ~Truthy(event.suite.error)) =>
        LET key == Or(event.suite.sessionId, "")
            part == CoveragePart(out)
        IN  /\ part > 0
            /\ IF arrived[key].events >= 1
               THEN /\ out[part] = createCoverageReport(arrived[key].hits)
                    /\ ~Written(out, "No unit test coverage for ")
               ELSE /\ out[part] =
                          write(<<"No unit test coverage for ", event.suite.name>>)
                    /\ \A i \in DOMAIN out :
                          out[i][1] # "createCoverageReport"
            /\ \E i \in DOMAIN out :
                  /\ i > part
                  /\ out[i] = write(Summary(event.suite))

C15_Witness ==
    /\ EndOfRegisteredRoot
    /\ ~Truthy(event.suite.error)
    /\ arrived[Or(event.suite.sessionId, "")] = [events |-> 1, hits |-> <<>>]
    /\ out[CoveragePart(out)] = createCoverageReport(<<>>)
    /\ HasSummary(out)

-----------------------------------------------------------------------------
(* C16 *)

\* C16: the TOTAL line of runEnd includes "; fatal error occurred" iff the
\* fatal-error flag is set, whether the total of failed tests is zero or
\* positive.
C16_TotalFatalSuffix ==
    (event.name = "runEnd" /\ HasTotalLine(out)) =>
        (Includes(out, "; fatal error occurred") <=> hasErrors)

-----------------------------------------------------------------------------
(* C17 *)

\* C17: suiteEnd for a root suite that carries an error writes
\* "Suite <id> FAILED" and the formatted error and sets hasErrors, whether
\* or not a session is registered for the suite and whatever its counts of
\* tests are; it does not throw.
C17_RootSuiteErrorIsReported ==
    (/\ event.name = "suiteEnd"
     /\ ~event.suite.hasParent
     /\ Truthy(event.suite.error)) =>
        /\ \E i \in DOMAIN out :
              /\ out[i] = write(<<"Suite ", event.suite.id, " FAILED\n">>)
              /\ i < Len(out)
              /\ out[i + 1] = write(formatError(event.suite.error))
        /\ IsRed(out)
        /\ hasErrors
        /\ ~threw

C17_Witness ==
    /\ event.name = "suiteEnd"
    /\ ~event.suite.hasParent
    /\ Truthy(event.suite.error)
    /\ Or(event.suite.sessionId, "") \notin Registered
    /\ Registered # {}
    /\ event.suite.numFailedTests = MaxCount
    /\ out = SuiteFailedOutput(event.suite)
    /\ hasErrors

-----------------------------------------------------------------------------
(* C18 *)

\* the text that a sequence of pieces makes
RECURSIVE Text(_)
Text(pieces) ==
    IF pieces = <<>> THEN "" ELSE Head(pieces) \o Text(Tail(pieces))

\* the pieces of the TOTAL line that calls wrote
TotalLine(calls) ==
    calls[CHOOSE i \in DOMAIN calls :
              /\ calls[i][1] = "write"
              /\ calls[i][2] # <<>>
              /\ calls[i][2][1] = "TOTAL: tested "][2]

\* the sessions are those of the example: A under one identifier, B under
\* the other, and no fatal error
IsExample ==
    /\ ~hasErrors
    /\ Registered = {"s1", "s2"}
    /\ {sessions["s1"].suite, sessions["s2"].suite}
           \in { {ExampleA("s1"), ExampleB("s2")},
                 {ExampleB("s1"), ExampleA("s2")} }

\* C18: the number of platforms in the TOTAL line of runEnd is the number of
\* session keys that root suiteStart events registered (root suites without
\* a sessionId, or with '', share the key ''); for the sessions A (10 tests,
\* 2 failed, 1 skipped) and B (5 tests, none failed or skipped) and no fatal
\* error the line is exactly
\* "TOTAL: tested 2 platforms, 2/15 tests failed (1 skipped)".
C18_PlatformCount ==
    (event.name = "runEnd" /\ HasTotalLine(out)) =>
        /\ Registered \subseteq SessionIds \cup {""}
        /\ Registered = DOMAIN arrived
        /\ TotalLine(out)[2] = ToString(Cardinality(Registered))
        /\ IsExample =>
              Text(TotalLine(out)) =
                  "TOTAL: tested 2 platforms, 2/15 tests failed (1 skipped)"

C18_Witness ==
    /\ event.name = "runEnd"
    /\ IsExample
    /\ Text(TotalLine(out)) =
          "TOTAL: tested 2 platforms, 2/15 tests failed (1 skipped)"

-----------------------------------------------------------------------------
(* C19 *)

\* C19: a coverage event for a registered session key (the sessionId of the
\* message, '' when it has none) changes only the coverage under that key,
\* to which the hits of the message are added: the suite under the key, the
\* entries under the other keys, the set of keys and hasErrors are as they
\* were, nothing is written, and the handler does not throw.
C19_CoverageFrame ==
    [][(/\ event'.name = "coverage"
        /\ Or(event'.message.sessionId, "") \in DOMAIN sessions) =>
          LET key == Or(event'.message.sessionId, "")
              before == IF sessions[key].coverage # <<>>
                        THEN sessions[key].coverage[1] ELSE <<>>
          IN  /\ DOMAIN sessions' = DOMAIN sessions
              /\ sessions'[key].suite = sessions[key].suite
              /\ sessions'[key].coverage # <<>>
              /\ \A f \in {Files[i] : i \in DOMAIN Files} :
                    Hits(sessions'[key].coverage[1], f) =
                        Hits(before, f) + Hits(event'.message.coverage, f)
              /\ \A id \in DOMAIN sessions \ {key} :
                    sessions'[id] = sessions[id]
              /\ hasErrors' = hasErrors
              /\ out' = <<>>
              /\ ~threw']_vars

C19_Witness ==
    /\ event.name = "coverage"
    /\ event.message.sessionId = Undefined
    /\ Registered = {"", "s1"}
    /\ sessions[""].coverage # <<>>
    /\ sessions["s1"].coverage = <<>>
    /\ hasErrors
    /\ out = <<>>
    /\ ~threw

====
